---- MODULE Spec2Model ----
(***************************************************************************)
(* Model of the horoscope-ai action handlers (src/src/actions/index.ts)    *)
(* over the three astro:db tables (src/unnamed/part_000).                  *)
(*                                                                         *)
(* An optional value (a zod .optional() input, a nullable column) is the   *)
(* empty sequence None when absent and the one-element sequence Some(v)    *)
(* when present.  Text is a TLA+ string, a Date is an integer instant.     *)
(***************************************************************************)
EXTENDS Integers, Sequences, FiniteSets, TLC

\* ------------------------------------------------------------------ bounds
\* number of identifiers crypto.randomUUID() can hand out
MaxIds == 2
\* the wall clock runs over the instants 0..MaxClock
MaxClock == 1
\* instants per calendar day (instant t is midnight iff t % TicksPerDay = 0)
TicksPerDay == 2
\* requests that may be between their ownership read and their write
MaxInFlight == 2

VARIABLES
    profiles,    \* rows of HoroscopeProfiles
    horoscopes,  \* rows of DailyHoroscopes
    views,       \* rows of HoroscopeViews
    nextId,      \* identifiers handed out so far by crypto.randomUUID()
    clock,       \* the instant new Date() reads
    fkEnforced,  \* whether the store enforces the declared references
    inflight,    \* requests suspended at an await between read and write
    created,     \* history: <<id, user>> of every successful createProfile
    deleted,     \* history: ids of every successful deleteProfile
    last         \* the last completed request and its response

vars == <<profiles, horoscopes, views, nextId, clock, fkEnforced, inflight,
          created, deleted, last>>

\* ------------------------------------------------------------------ values
None == <<>>
Some(v) == <<v>>

\* JavaScript truthiness of an optional string: undefined and "" are falsy
Truthy(o) == o # None /\ o[1] # ""

Users == {"u1", "u2"}
\* context.locals.user: absent, or a user object with an id
Contexts == {None} \cup {Some(u) : u \in Users}

\* crypto.randomUUID(): the n-th identifier handed out
UUID(n) == "id" \o ToString(n)
\* an identifier crypto.randomUUID() never hands out
UnknownId == "id0"
\* id strings a caller may send: every UUID that can exist, one that never
\* exists, and the empty string
IdStrings == {UUID(n) : n \in 1..MaxIds} \cup {UnknownId, ""}

Instants == 0..MaxClock
Days == 0..(MaxClock \div TicksPerDay)

\* z.coerce.date(): new Date(raw).  A date-only string "YYYY-MM-DD" becomes
\* midnight of that day, a full timestamp becomes its instant, anything else
\* is an Invalid Date, which the schema rejects.
RawDates == {[kind |-> "day", v |-> d] : d \in Days}
            \cup {[kind |-> "instant", v |-> t] : t \in Instants}
            \cup {[kind |-> "garbage", v |-> 0]}
DateValid(raw) == raw.kind # "garbage"
CoerceDate(raw) == IF raw.kind = "day" THEN raw.v * TicksPerDay ELSE raw.v
\* the calendar day an instant falls on
DayOf(t) == t \div TicksPerDay

\* z.string().min(1)
MinLen1(s) == Len(s) >= 1

\* ---------------------------------------------------------------- responses
Success(data) == [success |-> TRUE, code |-> "OK", message |-> "", data |-> data]
ActionError(code, message) ==
    [success |-> FALSE, code |-> code, message |-> message, data |-> None]
\* the input schema rejected the request before the handler ran
InputError == ActionError("BAD_REQUEST", "Failed to validate")
\* a store exception the handler does not catch
StoreError == ActionError("INTERNAL_SERVER_ERROR", "FOREIGN KEY constraint failed")

\* faulty variant: a request without an identity passes as an anonymous user
requireUserLax(ctx) ==
    [ok |-> TRUE, user |-> IF ctx = None THEN "" ELSE ctx[1], error |-> None]

\* requireUser(context): the user, or the UNAUTHORIZED error
requireUser(ctx) ==
    IF ctx = None
    THEN [ok |-> FALSE, user |-> "",
          error |-> ActionError("UNAUTHORIZED",
                                "You must be signed in to perform this action.")]
    ELSE [ok |-> TRUE, user |-> ctx[1], error |-> None]

\* ------------------------------------------------------------------- store
\* what a handler leaves behind: its response and the tables after it;
\* affected is the number of rows its write statement touched
Outcome(resp) ==
    [resp |-> resp, profiles |-> profiles, horoscopes |-> horoscopes,
     views |-> views, nextId |-> nextId, affected |-> 0]

\* faulty variant: the ownership filter eq(HoroscopeProfiles.userId, user.id) is lost
SelectProfileAnyOwner(id, uid) == {r \in profiles : r.id = id}

\* select().from(HoroscopeProfiles).where(and(eq(id), eq(userId))).limit(1)
SelectProfile(id, uid) == {r \in profiles : r.id = id /\ r.userId = uid}

\* update(table).set(updates).where(...): the matching rows get the columns
\* of updates, every other column and every other row is kept
SetColumns(row, updates) ==
    [c \in DOMAIN row |-> IF c \in DOMAIN updates THEN updates[c] ELSE row[c]]

UpdateProfileRows(id, uid, updates) ==
    {IF r.id = id /\ r.userId = uid THEN SetColumns(r, updates) ELSE r :
        r \in profiles}

\* HoroscopeViews.profileId references HoroscopeProfiles.id: with the
\* reference enforced, a profile some view row points at cannot be deleted
ProfileReferenced(id) == \E v \in views : v.profileId = Some(id)

\* delete(HoroscopeProfiles).where(and(eq(id), eq(userId)))
DeleteProfileRows(id, uid) ==
    {r \in profiles : ~(r.id = id /\ r.userId = uid)}

\* --------------------------------------------------------- profile inputs
PFields == {"name", "birthDate", "birthTime", "birthPlace", "zodiacSign",
            "preferredLanguage", "notes"}

PIn(name, birthDate, birthTime, birthPlace, zodiacSign, lang, notes) ==
    [name |-> name, birthDate |-> birthDate, birthTime |-> birthTime,
     birthPlace |-> birthPlace, zodiacSign |-> zodiacSign,
     preferredLanguage |-> lang, notes |-> notes]

\* the request bodies the model sends to createProfile / updateProfile
ProfileInputs ==
    { PIn(Some("Self"), None, None, None, Some("aries"), None, None),
      PIn(Some("Partner"), Some([kind |-> "day", v |-> 0]), Some("14:30"),
          Some("Paris"), Some("leo"), Some("en"), Some("")),
      PIn(None, Some([kind |-> "garbage", v |-> 0]), None, None, None, None,
          None) }

WithId(id, input) == [c \in DOMAIN input \cup {"id"} |->
                         IF c = "id" THEN id ELSE input[c]]

\* createProfile's input schema
createProfileValid(input) ==
    input.birthDate = None \/ DateValid(input.birthDate[1])

\* updateProfile's input schema: id is z.string().min(1)
updateProfileValid(input) ==
    /\ MinLen1(input.id)
    /\ input.birthDate = None \/ DateValid(input.birthDate[1])

\* deleteProfile's input schema
deleteProfileValid(input) == MinLen1(input.id)

\* the value a parsed input field carries into the handler
Parsed(input, f) ==
    IF f = "birthDate" /\ input[f] # None
    THEN Some(CoerceDate(input[f][1]))
    ELSE input[f]

\* ------------------------------------------------------- profile handlers
createProfile(input, ctx) ==
    IF ~createProfileValid(input) THEN Outcome(InputError)
    ELSE
    LET auth == requireUser(ctx) IN
    IF ~auth.ok THEN Outcome(auth.error)
    ELSE
    LET now == clock
        id  == UUID(nextId + 1)
        row == [id |-> id, userId |-> auth.user,
                name |-> Parsed(input, "name"),
                birthDate |-> Parsed(input, "birthDate"),
                birthTime |-> Parsed(input, "birthTime"),
                birthPlace |-> Parsed(input, "birthPlace"),
                zodiacSign |-> Parsed(input, "zodiacSign"),
                preferredLanguage |-> Parsed(input, "preferredLanguage"),
                notes |-> Parsed(input, "notes"),
                createdAt |-> now, updatedAt |-> now]
    IN [Outcome(Success([id |-> id])) EXCEPT
            !.profiles = profiles \cup {row},
            !.nextId = nextId + 1,
            !.affected = 1]

\* the ownership read shared by updateProfile and deleteProfile
ProfileNotFound == ActionError("NOT_FOUND", "Profile not found.")

\* faulty variant: every field is written, an absent one as NULL
ProfileUpdatesClearing(input, now) ==
    [c \in {"updatedAt"} \cup PFields |->
        IF c = "updatedAt" THEN now ELSE Parsed(input, c)]

\* const updates = { updatedAt: new Date() } plus every field of the input
\* that is not undefined
ProfileUpdates(input, now) ==
    [c \in {"updatedAt"} \cup {f \in PFields : input[f] # None} |->
        IF c = "updatedAt" THEN now ELSE Parsed(input, c)]

\* the write of updateProfile, performed on the tables as they are now
updateProfileWrite(id, uid, updates) ==
    [Outcome(Success([id |-> id])) EXCEPT
        !.profiles = UpdateProfileRows(id, uid, updates),
        !.affected = Cardinality(SelectProfile(id, uid))]

\* faulty variant: the ownership read is skipped
updateProfileCheckNoRead(input, ctx) ==
    IF ~updateProfileValid(input) THEN Some(InputError)
    ELSE IF ~requireUser(ctx).ok THEN Some(requireUser(ctx).error)
    ELSE None

\* updateProfile up to its ownership read: the failure it ends with, or None
updateProfileCheck(input, ctx) ==
    IF ~updateProfileValid(input) THEN Some(InputError)
    ELSE
    LET auth == requireUser(ctx) IN
    IF ~auth.ok THEN Some(auth.error)
    ELSE IF SelectProfile(input.id, auth.user) = {} THEN Some(ProfileNotFound)
    ELSE None

updateProfile(input, ctx) ==
    IF updateProfileCheck(input, ctx) # None
    THEN Outcome(updateProfileCheck(input, ctx)[1])
    ELSE updateProfileWrite(input.id, ctx[1], ProfileUpdates(input, clock))

\* the write of deleteProfile, performed on the tables as they are now
deleteProfileWrite(id, uid) ==
    IF fkEnforced /\ SelectProfile(id, uid) # {} /\ ProfileReferenced(id)
    THEN Outcome(StoreError)
    ELSE [Outcome(Success([id |-> id])) EXCEPT
            !.profiles = DeleteProfileRows(id, uid),
            !.affected = Cardinality(SelectProfile(id, uid))]

\* deleteProfile up to its ownership read: the failure it ends with, or None
deleteProfileCheck(input, ctx) ==
    IF ~deleteProfileValid(input) THEN Some(InputError)
    ELSE
    LET auth == requireUser(ctx) IN
    IF ~auth.ok THEN Some(auth.error)
    ELSE IF SelectProfile(input.id, auth.user) = {} THEN Some(ProfileNotFound)
    ELSE None

deleteProfile(input, ctx) ==
    IF deleteProfileCheck(input, ctx) # None
    THEN Outcome(deleteProfileCheck(input, ctx)[1])
    ELSE deleteProfileWrite(input.id, ctx[1])

\* faulty variant: the where clause eq(HoroscopeProfiles.userId, user.id) is lost
listProfilesUnfiltered(ctx) ==
    LET auth == requireUser(ctx) IN
    IF ~auth.ok THEN Outcome(auth.error)
    ELSE Outcome(Success([items |-> profiles, total |-> Cardinality(profiles)]))

listProfiles(ctx) ==
    LET auth == requireUser(ctx) IN
    IF ~auth.ok THEN Outcome(auth.error)
    ELSE LET rows == {r \in profiles : r.userId = auth.user}
         IN Outcome(Success([items |-> rows, total |-> Cardinality(rows)]))

\* ------------------------------------------------- daily horoscope inputs
DFields == {"horoscopeDate", "zodiacSign", "language", "generalText",
            "loveText", "careerText", "healthText", "luckyNumber",
            "luckyColor", "mood"}

DIn(date, sign, lang, general, love, career, health, number, color, mood) ==
    [horoscopeDate |-> date, zodiacSign |-> sign, language |-> lang,
     generalText |-> general, loveText |-> love, careerText |-> career,
     healthText |-> health, luckyNumber |-> number, luckyColor |-> color,
     mood |-> mood]

\* the request bodies the model sends to createDailyHoroscope
CreateDailyInputs ==
    { DIn(Some([kind |-> "day", v |-> d]), Some("aries"), None, Some("..."),
          None, None, None, None, None, None) : d \in Days }
    \cup
    { DIn(Some([kind |-> "instant", v |-> 1]), Some("leo"), Some("en"),
          Some("g"), Some("l"), Some("c"), Some("h"), Some("7"), Some("red"),
          Some("calm")),
      DIn(Some([kind |-> "day", v |-> 0]), Some(""), None, Some("..."),
          None, None, None, None, None, None),
      DIn(None, Some("aries"), None, None,
          None, None, None, None, None, None) }

\* the request bodies (without id) the model sends to updateDailyHoroscope
UpdateDailyInputs ==
    { DIn(None, None, None, None, None, None, None, None, None, None),
      DIn(None, Some(""), None, None, None, None, None, None, None, None),
      DIn(Some([kind |-> "day", v |-> 0]), Some("leo"), Some("en"),
          Some(""), None, None, None, None, None, Some("calm")),
      DIn(Some([kind |-> "garbage", v |-> 0]), None, None, None, None, None,
          None, None, None, None) }

\* the request bodies the model sends to getDailyHoroscope
GetDailyInputs ==
    { [zodiacSign |-> s, horoscopeDate |-> d, language |-> l] :
        s \in {"aries", "leo"},
        d \in {None, Some([kind |-> "day", v |-> 0])},
        l \in {None, Some("en"), Some("")} }
    \cup { [zodiacSign |-> "", horoscopeDate |-> None, language |-> None],
           [zodiacSign |-> "leo",
            horoscopeDate |-> Some([kind |-> "instant", v |-> 1]),
            language |-> None] }

\* the request bodies the model sends to listDailyHoroscopes; None is a
\* request without a body (the schema is .optional())
ListDailyInputs ==
    { None,
      Some([zodiacSign |-> None, horoscopeDate |-> None, language |-> None]),
      Some([zodiacSign |-> Some("aries"), horoscopeDate |-> None,
            language |-> None]),
      Some([zodiacSign |-> Some(""), horoscopeDate |-> None,
            language |-> Some("")]),
      Some([zodiacSign |-> Some("leo"),
            horoscopeDate |-> Some([kind |-> "instant", v |-> 1]),
            language |-> Some("en")]),
      Some([zodiacSign |-> None,
            horoscopeDate |-> Some([kind |-> "garbage", v |-> 0]),
            language |-> None]) }

\* createDailyHoroscope's input schema
createDailyHoroscopeValid(input) ==
    /\ input.horoscopeDate # None /\ DateValid(input.horoscopeDate[1])
    /\ input.zodiacSign # None /\ MinLen1(input.zodiacSign[1])
    /\ input.generalText # None /\ MinLen1(input.generalText[1])

\* updateDailyHoroscope's input schema
updateDailyHoroscopeValid(input) ==
    /\ MinLen1(input.id)
    /\ input.horoscopeDate = None \/ DateValid(input.horoscopeDate[1])

\* getDailyHoroscope's input schema
getDailyHoroscopeValid(input) ==
    /\ MinLen1(input.zodiacSign)
    /\ input.horoscopeDate = None \/ DateValid(input.horoscopeDate[1])

\* listDailyHoroscopes' input schema
listDailyHoroscopesValid(input) ==
    \/ input = None
    \/ input[1].horoscopeDate = None
    \/ DateValid(input[1].horoscopeDate[1])

ParsedDate(input) ==
    IF input.horoscopeDate = None THEN None
    ELSE Some(CoerceDate(input.horoscopeDate[1]))

\* ----------------------------------------------- daily horoscope handlers
createDailyHoroscope(input, ctx) ==
    IF ~createDailyHoroscopeValid(input) THEN Outcome(InputError)
    ELSE
    LET auth == requireUser(ctx) IN
    IF ~auth.ok THEN Outcome(auth.error)
    ELSE
    LET id  == UUID(nextId + 1)
        row == [id |-> id,
                horoscopeDate |-> ParsedDate(input),
                zodiacSign |-> input.zodiacSign,
                language |-> input.language,
                generalText |-> input.generalText,
                loveText |-> input.loveText,
                careerText |-> input.careerText,
                healthText |-> input.healthText,
                luckyNumber |-> input.luckyNumber,
                luckyColor |-> input.luckyColor,
                mood |-> input.mood,
                createdAt |-> clock]
    IN [Outcome(Success([id |-> id, ownerId |-> auth.user])) EXCEPT
            !.horoscopes = horoscopes \cup {row},
            !.nextId = nextId + 1,
            !.affected = 1]

\* select().from(DailyHoroscopes).where(eq(DailyHoroscopes.id, id)).limit(1)
SelectHoroscope(id) == {r \in horoscopes : r.id = id}

\* const updates = {} plus every field of the input that is not undefined
HoroscopeUpdates(input) ==
    [c \in {f \in DFields : input[f] # None} |->
        IF c = "horoscopeDate" THEN ParsedDate(input) ELSE input[c]]

UpdateHoroscopeRows(id, updates) ==
    {IF r.id = id THEN SetColumns(r, updates) ELSE r : r \in horoscopes}

\* update(...).set({}) is refused by the query builder ("No values to set")
NoValuesError == ActionError("INTERNAL_SERVER_ERROR", "No values to set")

updateDailyHoroscope(input, ctx) ==
    IF ~updateDailyHoroscopeValid(input) THEN Outcome(InputError)
    ELSE
    LET auth == requireUser(ctx) IN
    IF ~auth.ok THEN Outcome(auth.error)
    ELSE IF SelectHoroscope(input.id) = {}
    THEN Outcome(ActionError("NOT_FOUND", "Daily horoscope not found."))
    ELSE IF DOMAIN HoroscopeUpdates(input) = {} THEN Outcome(NoValuesError)
    ELSE [Outcome(Success([id |-> input.id])) EXCEPT
            !.horoscopes = UpdateHoroscopeRows(input.id, HoroscopeUpdates(input)),
            !.affected = Cardinality(SelectHoroscope(input.id))]

\* const targetDate = input.horoscopeDate ?? new Date()
TargetDate(input, now) ==
    IF input.horoscopeDate # None THEN CoerceDate(input.horoscopeDate[1]) ELSE now

\* the rows getDailyHoroscope's where clause selects: sign and exact date,
\* and the language only if (input.language) is truthy
GetDailyMatches(input, now) ==
    {r \in horoscopes :
        /\ r.zodiacSign = Some(input.zodiacSign)
        /\ r.horoscopeDate = Some(TargetDate(input, now))
        /\ Truthy(input.language) => r.language = input.language}

\* every outcome getDailyHoroscope can have: .limit(1)[0] is any matching row
getDailyHoroscope(input, ctx) ==
    IF ~getDailyHoroscopeValid(input) THEN {Outcome(InputError)}
    ELSE IF GetDailyMatches(input, clock) = {}
    THEN {Outcome(ActionError("NOT_FOUND",
                    "No horoscope found for the given sign and date."))}
    ELSE {Outcome(Success([horoscope |-> r])) : r \in GetDailyMatches(input, clock)}

\* a condition is pushed only for a truthy filter value
ListDailyMatches(input) ==
    IF input = None THEN horoscopes
    ELSE {r \in horoscopes :
            /\ Truthy(input[1].zodiacSign) => r.zodiacSign = input[1].zodiacSign
            /\ input[1].horoscopeDate # None
                  => r.horoscopeDate = ParsedDate(input[1])
            /\ Truthy(input[1].language) => r.language = input[1].language}

listDailyHoroscopes(input, ctx) ==
    IF ~listDailyHoroscopesValid(input) THEN Outcome(InputError)
    ELSE LET rows == ListDailyMatches(input)
         IN Outcome(Success([items |-> rows, total |-> Cardinality(rows)]))

\* --------------------------------------------------------------- view log
\* the request bodies the model sends to logHoroscopeView
ViewInputs ==
    { [profileId |-> p, dailyHoroscopeId |-> h, deviceInfo |-> None] :
        p \in {None} \cup {Some(i) : i \in IdStrings},
        h \in {None} \cup {Some(i) : i \in IdStrings} }
    \cup { [profileId |-> None, dailyHoroscopeId |-> None,
            deviceInfo |-> Some("ios")] }

\* the declared references of HoroscopeViews, when the store enforces them:
\* a non-null profileId / dailyHoroscopeId must be the id of a stored row
ViewReferencesHold(row) ==
    /\ row.profileId # None => \E p \in profiles : p.id = row.profileId[1]
    /\ row.dailyHoroscopeId # None
          => \E h \in horoscopes : h.id = row.dailyHoroscopeId[1]

logHoroscopeView(input, ctx) ==
    LET auth == requireUser(ctx) IN
    IF ~auth.ok THEN Outcome(auth.error)
    ELSE IF Truthy(input.profileId)
            /\ SelectProfile(input.profileId[1], auth.user) = {}
    THEN Outcome(ActionError("FORBIDDEN", "Profile not found for this user."))
    ELSE IF Truthy(input.dailyHoroscopeId)
            /\ SelectHoroscope(input.dailyHoroscopeId[1]) = {}
    THEN Outcome(ActionError("NOT_FOUND", "Daily horoscope not found."))
    ELSE
    LET id  == UUID(nextId + 1)
        now == clock
        row == [id |-> id, profileId |-> input.profileId,
                userId |-> auth.user,
                dailyHoroscopeId |-> input.dailyHoroscopeId,
                viewedAt |-> now, deviceInfo |-> input.deviceInfo,
                createdAt |-> now]
    IN IF fkEnforced /\ ~ViewReferencesHold(row)
       THEN [Outcome(StoreError) EXCEPT !.nextId = nextId + 1]
       ELSE [Outcome(Success([id |-> id])) EXCEPT
                !.views = views \cup {row},
                !.nextId = nextId + 1,
                !.affected = 1]

\* ------------------------------------------------------------ the machine
\* no response is outstanding
NoRequest == [op |-> "none", ctx |-> None, input |-> None,
              resp |-> Success(None), affected |-> 0]

Init ==
    /\ profiles = {}
    /\ horoscopes = {}
    /\ views = {}
    /\ nextId = 0
    /\ clock = 0
    /\ fkEnforced \in BOOLEAN
    /\ inflight = {}
    /\ created = {}
    /\ deleted = {}
    /\ last = NoRequest

\* a request is served and completes with outcome o: the tables are as it
\* left them and its response is on its way to the caller
Respond(op, ctx, input, o) ==
    /\ last.op = "none"
    /\ o.nextId <= MaxIds
    /\ profiles' = o.profiles
    /\ horoscopes' = o.horoscopes
    /\ views' = o.views
    /\ nextId' = o.nextId
    /\ last' = [op |-> op, ctx |-> ctx, input |-> input, resp |-> o.resp,
                affected |-> o.affected]
    /\ created' = IF op = "createProfile" /\ o.resp.success
                  THEN created \cup {<<o.resp.data.id, ctx[1]>>}
                  ELSE created
    /\ deleted' = IF op = "deleteProfile" /\ o.resp.success
                  THEN deleted \cup {o.resp.data.id}
                  ELSE deleted
    /\ UNCHANGED <<clock, fkEnforced>>

CreateProfile ==
    \E input \in ProfileInputs, ctx \in Contexts :
        /\ Respond("createProfile", ctx, input,
                   createProfile(input, ctx))
        /\ UNCHANGED inflight

UpdateProfile ==
    \E id \in IdStrings, body \in ProfileInputs, ctx \in Contexts :
        /\ Respond("updateProfile", ctx, WithId(id, body),
                   updateProfile(WithId(id, body), ctx))
        /\ UNCHANGED inflight

DeleteProfile ==
    \E id \in IdStrings, ctx \in Contexts :
        /\ Respond("deleteProfile", ctx, [id |-> id],
                   deleteProfile([id |-> id], ctx))
        /\ UNCHANGED inflight

ListProfiles ==
    \E ctx \in Contexts :
        /\ Respond("listProfiles", ctx, None,
                   listProfiles(ctx))
        /\ UNCHANGED inflight

CreateDailyHoroscope ==
    \E input \in CreateDailyInputs, ctx \in Contexts :
        /\ Respond("createDailyHoroscope", ctx, input,
                   createDailyHoroscope(input, ctx))
        /\ UNCHANGED inflight

UpdateDailyHoroscope ==
    \E id \in IdStrings, body \in UpdateDailyInputs, ctx \in Contexts :
        /\ Respond("updateDailyHoroscope", ctx, WithId(id, body),
                   updateDailyHoroscope(WithId(id, body), ctx))
        /\ UNCHANGED inflight

GetDailyHoroscope ==
    \E input \in GetDailyInputs, ctx \in Contexts :
        \E o \in getDailyHoroscope(input, ctx) :
            /\ Respond("getDailyHoroscope", ctx, input, o)
            /\ UNCHANGED inflight

ListDailyHoroscopes ==
    \E input \in ListDailyInputs, ctx \in Contexts :
        /\ Respond("listDailyHoroscopes", ctx, input,
                   listDailyHoroscopes(input, ctx))
        /\ UNCHANGED inflight

LogHoroscopeView ==
    \E input \in ViewInputs, ctx \in Contexts :
        /\ Respond("logHoroscopeView", ctx, input,
                   logHoroscopeView(input, ctx))
        /\ UNCHANGED inflight

\* the caller has received the response
Deliver ==
    /\ last.op # "none"
    /\ last' = NoRequest
    /\ UNCHANGED <<profiles, horoscopes, views, nextId, clock, fkEnforced,
                   inflight, created, deleted>>

\* time passes
Tick ==
    /\ last.op = "none"
    /\ clock < MaxClock
    /\ clock' = clock + 1
    /\ UNCHANGED <<profiles, horoscopes, views, nextId, fkEnforced, inflight,
                   created, deleted, last>>

\* requests served one after the other
Next ==
    \/ CreateProfile
    \/ UpdateProfile
    \/ DeleteProfile
    \/ ListProfiles
    \/ CreateDailyHoroscope
    \/ UpdateDailyHoroscope
    \/ GetDailyHoroscope
    \/ ListDailyHoroscopes
    \/ LogHoroscopeView
    \/ Deliver
    \/ Tick

Spec == Init /\ [][Next]_vars

\* the handlers that read or write HoroscopeProfiles
NextProfiles ==
    \/ CreateProfile
    \/ UpdateProfile
    \/ DeleteProfile
    \/ ListProfiles
    \/ LogHoroscopeView
    \/ Deliver
    \/ Tick

SpecProfiles == Init /\ [][NextProfiles]_vars

\* the handlers that write or guard the view log
NextViews ==
    \/ CreateProfile
    \/ DeleteProfile
    \/ CreateDailyHoroscope
    \/ LogHoroscopeView
    \/ Deliver

SpecViews == Init /\ [][NextViews]_vars

\* the daily horoscope handlers alone
NextDaily ==
    \/ CreateDailyHoroscope
    \/ UpdateDailyHoroscope
    \/ GetDailyHoroscope
    \/ ListDailyHoroscopes
    \/ Deliver
    \/ Tick

SpecDaily == Init /\ [][NextDaily]_vars

\* every handler, all requests served within one instant
NextHandlers ==
    \/ CreateProfile
    \/ UpdateProfile
    \/ DeleteProfile
    \/ ListProfiles
    \/ CreateDailyHoroscope
    \/ UpdateDailyHoroscope
    \/ GetDailyHoroscope
    \/ ListDailyHoroscopes
    \/ LogHoroscopeView
    \/ Deliver

SpecHandlers == Init /\ [][NextHandlers]_vars

\* ------------------------------------------------- overlapping requests
\* updateProfile and deleteProfile await the store twice: the ownership read
\* and the write are separate store operations, and other requests run in
\* between.  A request that passed its read waits in inflight for its write.
Suspend(op, ctx, input, updates) ==
    /\ last.op = "none"
    /\ Cardinality(inflight) < MaxInFlight
    /\ inflight' = inflight \cup
           {[op |-> op, ctx |-> ctx, input |-> input, updates |-> updates]}
    /\ UNCHANGED <<profiles, horoscopes, views, nextId, clock, fkEnforced,
                   created, deleted, last>>

UpdateProfileRead ==
    \E id \in IdStrings, body \in ProfileInputs, ctx \in Contexts :
        LET input == WithId(id, body) IN
        \/ /\ updateProfileCheck(input, ctx) # None
           /\ Respond("updateProfile", ctx, input,
                      Outcome(updateProfileCheck(input, ctx)[1]))
           /\ UNCHANGED inflight
        \/ /\ updateProfileCheck(input, ctx) = None
           /\ Suspend("updateProfile", ctx, input, ProfileUpdates(input, clock))

UpdateProfileWrite ==
    \E r \in inflight :
        /\ r.op = "updateProfile"
        /\ Respond("updateProfile", r.ctx, r.input,
                   updateProfileWrite(r.input.id, r.ctx[1], r.updates))
        /\ inflight' = inflight \ {r}

DeleteProfileRead ==
    \E id \in IdStrings, ctx \in Contexts :
        LET input == [id |-> id] IN
        \/ /\ deleteProfileCheck(input, ctx) # None
           /\ Respond("deleteProfile", ctx, input,
                      Outcome(deleteProfileCheck(input, ctx)[1]))
           /\ UNCHANGED inflight
        \/ /\ deleteProfileCheck(input, ctx) = None
           /\ Suspend("deleteProfile", ctx, input, None)

DeleteProfileWrite ==
    \E r \in inflight :
        /\ r.op = "deleteProfile"
        /\ Respond("deleteProfile", r.ctx, r.input,
                   deleteProfileWrite(r.input.id, r.ctx[1]))
        /\ inflight' = inflight \ {r}

ConcNext ==
    \/ CreateProfile
    \/ UpdateProfileRead
    \/ UpdateProfileWrite
    \/ DeleteProfileRead
    \/ DeleteProfileWrite
    \/ Deliver

ConcSpec == Init /\ [][ConcNext]_vars

\* ================================================================ claims
\* the ids of the profiles user u created and has not deleted, by the
\* responses u received
OwnedIds(u) == {c[1] : c \in {d \in created : d[2] = u}} \ deleted

\* ids that are the id of no stored profile
AbsentIds == {i \in IdStrings : MinLen1(i) /\ \A p \in profiles : p.id # i}

\* C1: listProfiles by caller U returns exactly the profiles U created and
\* has not deleted, with total the number of items; so an id createProfile
\* returned to U is in U's list and in no other caller's list.
C1_ProfileIsolation ==
    (last.op = "listProfiles" /\ last.resp.success) =>
        LET items == last.resp.data.items IN
        /\ {r.id : r \in items} = OwnedIds(last.ctx[1])
        /\ items \subseteq profiles
        /\ \A r \in items : r.userId = last.ctx[1]
        /\ last.resp.data.total = Cardinality(items)
        /\ \A c \in created :
              c[2] # last.ctx[1] => c[1] \notin {r.id : r \in items}

\* C1 witness: a caller lists a profile of its own while another caller's
\* profile is stored and a third identifier has been used up
C1_Witness ==
    /\ last.op = "listProfiles"
    /\ last.resp.success
    /\ last.resp.data.total = 1
    /\ \E p \in profiles : p.userId # last.ctx[1]

\* C2: updateProfile and deleteProfile by a caller who does not own the
\* profile fail with NOT_FOUND, change nothing, and answer exactly as for an
\* identifier that is the id of no profile.
C2_ForeignIsNotFound ==
    \A u \in Users : \A p \in profiles : p.userId # u =>
        /\ \A body \in ProfileInputs :
              LET input == WithId(p.id, body) IN
              updateProfileValid(input) =>
                /\ updateProfile(input, Some(u)).resp.code = "NOT_FOUND"
                /\ updateProfile(input, Some(u)) =
                      Outcome(updateProfile(input, Some(u)).resp)
                /\ \A i \in AbsentIds :
                      updateProfile(WithId(i, body), Some(u)).resp =
                          updateProfile(input, Some(u)).resp
        /\ deleteProfile([id |-> p.id], Some(u)).resp.code = "NOT_FOUND"
        /\ deleteProfile([id |-> p.id], Some(u)) =
              Outcome(deleteProfile([id |-> p.id], Some(u)).resp)
        /\ \A i \in AbsentIds :
              deleteProfile([id |-> i], Some(u)).resp =
                  deleteProfile([id |-> p.id], Some(u)).resp

\* C2 witness: a caller was answered NOT_FOUND for another caller's profile
C2_Witness ==
    /\ last.op \in {"updateProfile", "deleteProfile"}
    /\ last.ctx # None
    /\ last.resp.code = "NOT_FOUND"
    /\ \E p \in profiles : p.id = last.input.id /\ p.userId # last.ctx[1]

\* a step in which updateProfile succeeds for its owner
UpdateSucceeds == last'.op = "updateProfile" /\ last'.resp.success

\* what C3 says of every field but updatedAt
UpdateFrame(old, new) ==
    /\ profiles' \ {new} = profiles \ {old}
    /\ \A f \in PFields :
          new[f] = IF last'.input[f] = None THEN old[f]
                   ELSE Parsed(last'.input, f)
    /\ new.id = old.id
    /\ new.userId = old.userId
    /\ new.createdAt = old.createdAt
    /\ horoscopes' = horoscopes
    /\ views' = views

\* C3 as stated: a successful updateProfile writes exactly the fields of the
\* input, keeps id, owner and createdAt, leaves every other profile alone,
\* and advances updatedAt.
C3_UpdatedAtAdvances ==
    [][UpdateSucceeds =>
        \E old \in profiles : \E new \in profiles' :
            /\ old.id = last'.input.id /\ new.id = old.id
            /\ UpdateFrame(old, new)
            /\ new.updatedAt > old.updatedAt]_vars

\* C3 amended: as above, but updatedAt is set to the instant the handler
\* reads, which is never earlier than the previous value and may equal it.
C3_UpdateWritesGivenFields ==
    [][UpdateSucceeds =>
        \E old \in profiles : \E new \in profiles' :
            /\ old.id = last'.input.id /\ new.id = old.id
            /\ UpdateFrame(old, new)
            /\ new.updatedAt = clock
            /\ new.updatedAt >= old.updatedAt]_vars

\* C3 witness: an update with a subset of the fields kept an absent field's
\* value, moved updatedAt past createdAt, and another profile is stored
C3_Witness ==
    /\ last.op = "updateProfile"
    /\ last.resp.success
    /\ last.input.birthTime = None
    /\ \E r \in profiles :
          /\ r.id = last.input.id
          /\ r.birthTime = Some("14:30")
          /\ r.name = Some("Self")
          /\ r.updatedAt > r.createdAt
    /\ Cardinality(profiles) = 2

\* C4: logHoroscopeView with a profileId owned by another caller fails with
\* FORBIDDEN; with a dailyHoroscopeId that matches no stored DailyHoroscope
\* (and a profileId that is absent or the caller's own) it fails with
\* NOT_FOUND; for every string value, and without inserting a ViewLog row.
C4_ViewChecks ==
    (last.op = "logHoroscopeView" /\ last.ctx # None) =>
        LET p == last.input.profileId
            h == last.input.dailyHoroscopeId
            foreign == p # None /\ \E r \in profiles :
                          r.id = p[1] /\ r.userId # last.ctx[1]
            own == p = None \/ \E r \in profiles :
                          r.id = p[1] /\ r.userId = last.ctx[1]
            unmatched == h # None /\ \A r \in horoscopes : r.id # h[1]
        IN /\ foreign => last.resp.code = "FORBIDDEN" /\ last.affected = 0
           /\ (unmatched /\ own) =>
                 last.resp.code = "NOT_FOUND" /\ last.affected = 0

UnauthorizedError ==
    ActionError("UNAUTHORIZED", "You must be signed in to perform this action.")

\* the outcome of a request that was refused before the store was touched
Refused(valid) == Outcome(IF valid THEN UnauthorizedError ELSE InputError)

AuthOps == {"createProfile", "updateProfile", "deleteProfile", "listProfiles",
            "createDailyHoroscope", "updateDailyHoroscope", "logHoroscopeView"}

\* what every request the model can send would get from the store as it is
C6_EveryRequest ==
    /\ \A body \in ProfileInputs :
          /\ createProfile(body, None) = Refused(createProfileValid(body))
          /\ \A id \in IdStrings :
                updateProfile(WithId(id, body), None) =
                    Refused(updateProfileValid(WithId(id, body)))
    /\ \A id \in IdStrings :
          deleteProfile([id |-> id], None) =
              Refused(deleteProfileValid([id |-> id]))
    /\ listProfiles(None) = Refused(TRUE)
    /\ \A body \in CreateDailyInputs :
          createDailyHoroscope(body, None) =
              Refused(createDailyHoroscopeValid(body))
    /\ \A body \in UpdateDailyInputs : \A id \in IdStrings :
          updateDailyHoroscope(WithId(id, body), None) =
              Refused(updateDailyHoroscopeValid(WithId(id, body)))
    /\ \A input \in ViewInputs : logHoroscopeView(input, None) = Refused(TRUE)
    /\ \A input \in GetDailyInputs : \A ctx \in Contexts :
          /\ getDailyHoroscope(input, ctx) = getDailyHoroscope(input, None)
          /\ \A o \in getDailyHoroscope(input, ctx) :
                o.resp.code # "UNAUTHORIZED"
    /\ \A input \in ListDailyInputs : \A ctx \in Contexts :
          /\ listDailyHoroscopes(input, ctx) = listDailyHoroscopes(input, None)
          /\ listDailyHoroscopes(input, ctx).resp.code # "UNAUTHORIZED"

\* C6: without an authenticated identity each of the seven guarded handlers
\* fails with UNAUTHORIZED (a body its schema rejects never reaches the
\* handler and fails with BAD_REQUEST) and leaves the store unchanged;
\* getDailyHoroscope and listDailyHoroscopes never fail with UNAUTHORIZED
\* and answer the same with and without an identity.  The second part is
\* asked of every store the handlers leave behind, between two requests.
C6_AuthGate ==
    /\ (last.op \in AuthOps /\ last.ctx = None) =>
          /\ last.resp.code \in {"UNAUTHORIZED", "BAD_REQUEST"}
          /\ last.affected = 0
    /\ last.op \in {"getDailyHoroscope", "listDailyHoroscopes"} =>
          last.resp.code # "UNAUTHORIZED"
    /\ last.op = "none" => C6_EveryRequest

\* C6 witness: deleteProfile without an identity was refused for the id of
\* a stored profile, with a view row and a horoscope in the store
C6_Witness ==
    /\ last.op = "deleteProfile"
    /\ last.ctx = None
    /\ last.resp.code = "UNAUTHORIZED"
    /\ \E p \in profiles : p.id = last.input.id
    /\ horoscopes # {}

\* C7: getDailyHoroscope looks for the requested sign, the supplied date or
\* else today's calendar date, and the language if one is given; it fails
\* with NOT_FOUND exactly when no stored row has all of these and otherwise
\* returns such a row.
C7_GetDailyHoroscope ==
    (last.op = "getDailyHoroscope" /\ getDailyHoroscopeValid(last.input)) =>
        LET wanted == {r \in horoscopes :
                /\ r.zodiacSign = Some(last.input.zodiacSign)
                /\ IF last.input.horoscopeDate # None
                   THEN r.horoscopeDate = ParsedDate(last.input)
                   ELSE DayOf(r.horoscopeDate[1]) = DayOf(clock)
                /\ Truthy(last.input.language) =>
                      r.language = last.input.language}
        IN /\ last.resp.code = "NOT_FOUND" <=> wanted = {}
           /\ last.resp.success => last.resp.data.horoscope \in wanted

\* C8: deleteProfile by the owner succeeds, removes exactly that profile and
\* leaves every ViewLog and DailyHoroscope as it was, whether or not a
\* ViewLog refers to the profile; deleting the same id again is NOT_FOUND.
C8_HardDelete ==
    [][(last'.op = "deleteProfile" /\ last'.ctx # None) =>
        /\ \A p \in profiles :
              (p.id = last'.input.id /\ p.userId = last'.ctx[1]) =>
                  /\ last'.resp.success
                  /\ profiles' = profiles \ {p}
                  /\ views' = views
                  /\ horoscopes' = horoscopes
        /\ last'.input.id \in deleted => last'.resp.code = "NOT_FOUND"]_vars

\* C9 as stated: an updateProfile or deleteProfile that returns success has
\* written to (removed) one existing profile.
C9_SuccessWroteOneRow ==
    (last.op \in {"updateProfile", "deleteProfile"} /\ last.resp.success) =>
        last.affected = 1

\* C9 amended: an updateProfile or deleteProfile that returns success was
\* issued for a profile its caller created; its write touched that one
\* profile, or none because a deleteProfile that overlapped it had already
\* removed the profile, and then it still returns success.
C9_SuccessAfterOwnershipRead ==
    (last.op \in {"updateProfile", "deleteProfile"} /\ last.resp.success) =>
        /\ <<last.input.id, last.ctx[1]>> \in created
        /\ \/ last.affected = 1
           \/ last.affected = 0 /\ last.input.id \in deleted

\* C9 witness: an updateProfile returned success although its write found
\* the profile already deleted
C9_Witness ==
    /\ last.op = "updateProfile"
    /\ last.resp.success
    /\ last.affected = 0
    /\ last.input.id \in deleted

\* C10: every stored DailyHoroscope has a zodiac sign and a general text of
\* length at least 1 and a horoscope date.
C10_RequiredFields ==
    \A r \in horoscopes :
        /\ r.zodiacSign # None /\ Len(r.zodiacSign[1]) >= 1
        /\ r.generalText # None /\ Len(r.generalText[1]) >= 1
        /\ r.horoscopeDate # None

====
